---- MODULE Spec2Model ----
(***************************************************************************)
(* State-machine model of the POS front end's transaction engine:          *)
(* the cart store, the payment modal, the transaction store with its       *)
(* persistence, and the pages that read the transaction log.               *)
(*                                                                         *)
(* Money is kept in integer thousandths of the currency unit (a tenth of a  *)
(* cent) and the tax rate in whole percent, so 3.50 is 3500 and 0.08 is 8. *)
(* Text typed into the tender field is a sequence of one-character         *)
(* strings.                                                                *)
(***************************************************************************)
EXTENDS Integers, Sequences, FiniteSets, TLC

(***************************************************************************)
(* Bounds of the exploration.                                              *)
(***************************************************************************)
MaxQty == 2
MaxTx == 2
MaxClock == 1
PayMaxTx == 1
MaxTenderLen == 5

(***************************************************************************)
(* Program constants.                                                      *)
(***************************************************************************)
DefaultTaxRate == 8
ReceiptClockMod == 1000000
QuickAmount50 == 50000
QuickAmount100 == 100000

ProductIds == {"1", "2", "3", "4"}

\* price of the mock catalog entries
mockProducts == ("1" :> 3500) @@ ("2" :> 8990) @@ ("3" :> 2990) @@ ("4" :> 2750)

\* catalog order of the mock products
productOrder == <<"1", "2", "3", "4">>

\* name of the mock catalog entries
mockNames ==
    ("1" :> <<"C", "o", "f", "f", "e", "e", " ", "-", " ", "A", "m", "e",
              "r", "i", "c", "a", "n", "o">>)
    @@ ("2" :> <<"S", "a", "n", "d", "w", "i", "c", "h", " ", "-", " ", "C",
                 "l", "u", "b">>)
    @@ ("3" :> <<"M", "u", "f", "f", "i", "n", " ", "-", " ", "B", "l", "u",
                 "e", "b", "e", "r", "r", "y">>)
    @@ ("4" :> <<"T", "e", "a", " ", "-", " ", "G", "r", "e", "e", "n">>)

\* description of the mock catalog entries
mockDescriptions ==
    ("1" :> <<"R", "i", "c", "h", " ", "a", "n", "d", " ", "b", "o", "l",
              "d", " ", "a", "m", "e", "r", "i", "c", "a", "n", "o", " ",
              "c", "o", "f", "f", "e", "e">>)
    @@ ("2" :> <<"D", "e", "l", "i", "c", "i", "o", "u", "s", " ", "c", "l",
                 "u", "b", " ", "s", "a", "n", "d", "w", "i", "c", "h", " ",
                 "w", "i", "t", "h", " ", "t", "u", "r", "k", "e", "y", " ",
                 "a", "n", "d", " ", "b", "a", "c", "o", "n">>)
    @@ ("3" :> <<"F", "r", "e", "s", "h", " ", "b", "a", "k", "e", "d", " ",
                 "b", "l", "u", "e", "b", "e", "r", "r", "y", " ", "m", "u",
                 "f", "f", "i", "n">>)
    @@ ("4" :> <<"P", "r", "e", "m", "i", "u", "m", " ", "g", "r", "e", "e",
                 "n", " ", "t", "e", "a">>)

\* category of the mock catalog entries
mockCategories ==
    ("1" :> "Beverages") @@ ("2" :> "Food") @@ ("3" :> "Bakery") @@ ("4" :> "Beverages")

UpperCase == <<"A", "B", "C", "D", "E", "F", "G", "H", "I", "J", "K", "L", "M",
               "N", "O", "P", "Q", "R", "S", "T", "U", "V", "W", "X", "Y", "Z">>

LowerCase == <<"a", "b", "c", "d", "e", "f", "g", "h", "i", "j", "k", "l", "m",
               "n", "o", "p", "q", "r", "s", "t", "u", "v", "w", "x", "y", "z">>

\* text.toLowerCase()
toLowerCase(text) ==
    [i \in DOMAIN text |->
        IF \E k \in DOMAIN UpperCase : UpperCase[k] = text[i]
        THEN LowerCase[CHOOSE k \in DOMAIN UpperCase : UpperCase[k] = text[i]]
        ELSE text[i]]

\* text.includes(part)
includes(text, part) ==
    \E i \in 1..(Len(text) - Len(part) + 1) :
        SubSeq(text, i, i + Len(part) - 1) = part

\* getFilteredProducts without its isActive test
getFilteredProducts_withInactive(actives, term, category) ==
    SelectSeq(productOrder, LAMBDA id :
        /\ \/ term = << >>
           \/ includes(toLowerCase(mockNames[id]), toLowerCase(term))
           \/ includes(toLowerCase(mockDescriptions[id]), toLowerCase(term))
        /\ category = "" \/ mockCategories[id] = category)

\* getFilteredProducts(), as the ids of the products it returns
getFilteredProducts(actives, term, category) ==
    SelectSeq(productOrder, LAMBDA id :
        /\ \/ term = << >>
           \/ includes(toLowerCase(mockNames[id]), toLowerCase(term))
           \/ includes(toLowerCase(mockDescriptions[id]), toLowerCase(term))
        /\ category = "" \/ mockCategories[id] = category
        /\ actives[id])

NoUser == "null"

\* users known to the mock authentication, id -> name
mockUsers == ("1" :> "Administrator") @@ ("2" :> "Cashier User")

UserIds == DOMAIN mockUsers

PaymentMethods == {"cash", "card", "digital_wallet"}

Rands == {0, 1}

(***************************************************************************)
(* Numbers as JavaScript sees them: a value, or NaN.                       *)
(***************************************************************************)
NaN == [nan |-> TRUE, v |-> 0]

Num(n) == [nan |-> FALSE, v |-> n]

\* a >= b on numbers: false as soon as one side is NaN
NumGE(a, b) == ~a.nan /\ ~b.nan /\ a.v >= b.v

NumMinus(a, b) == IF a.nan \/ b.nan THEN NaN ELSE Num(a.v - b.v)

\* a < b on numbers: false as soon as one side is NaN
NumLT(a, b) == ~a.nan /\ ~b.nan /\ a.v < b.v

\* Math.max(a, b): NaN as soon as one side is NaN
MathMax(a, b) == IF a.nan \/ b.nan THEN NaN ELSE IF a.v >= b.v THEN a ELSE b

\* Math.abs(a)
MathAbs(a) == IF a.nan THEN NaN ELSE IF a.v < 0 THEN Num(0 - a.v) ELSE a

(***************************************************************************)
(* Cart store.                                                             *)
(***************************************************************************)
Range(s) == {s[i] : i \in DOMAIN s}

HasLine(its, pid) == \E i \in DOMAIN its : its[i].productId = pid

\* addItem refreshing the price of the line it increments
addItem_repricing(its, product) ==
    IF HasLine(its, product.id)
    THEN [i \in DOMAIN its |->
            IF its[i].productId = product.id
            THEN [its[i] EXCEPT !.quantity = @ + 1, !.price = product.price]
            ELSE its[i]]
    ELSE Append(its, [productId |-> product.id,
                      price |-> product.price,
                      quantity |-> 1])

addItem(its, product) ==
    IF HasLine(its, product.id)
    THEN [i \in DOMAIN its |->
            IF its[i].productId = product.id
            THEN [its[i] EXCEPT !.quantity = @ + 1]
            ELSE its[i]]
    ELSE Append(its, [productId |-> product.id,
                      price |-> product.price,
                      quantity |-> 1])

\* removeItem filling the gap with the last line
removeItem_swapping(its, productId) ==
    IF ~HasLine(its, productId) \/ its[Len(its)].productId = productId
    THEN SelectSeq(its, LAMBDA item : item.productId # productId)
    ELSE [i \in 1..(Len(its) - 1) |->
            IF its[i].productId = productId THEN its[Len(its)] ELSE its[i]]

\* removeItem dropping the first line when the product has none
removeItem_orHead(its, productId) ==
    IF HasLine(its, productId) \/ its = << >>
    THEN SelectSeq(its, LAMBDA item : item.productId # productId)
    ELSE Tail(its)

removeItem(its, productId) ==
    SelectSeq(its, LAMBDA item : item.productId # productId)

\* updateQuantity without its quantity <= 0 branch
updateQuantity_noRemoval(its, productId, quantity) ==
    [i \in DOMAIN its |->
        IF its[i].productId = productId
        THEN [its[i] EXCEPT !.quantity = quantity]
        ELSE its[i]]

\* updateQuantity adding the given value to the line's quantity
updateQuantity_incremental(its, productId, quantity) ==
    IF quantity <= 0
    THEN SelectSeq(its, LAMBDA item : item.productId # productId)
    ELSE [i \in DOMAIN its |->
            IF its[i].productId = productId
            THEN [its[i] EXCEPT !.quantity = @ + quantity]
            ELSE its[i]]

updateQuantity(its, productId, quantity) ==
    IF quantity <= 0
    THEN removeItem(its, productId)
    ELSE [i \in DOMAIN its |->
            IF its[i].productId = productId
            THEN [its[i] EXCEPT !.quantity = quantity]
            ELSE its[i]]

clearCart == << >>

\* the product store's updateProduct(id, { price }), on the price column
updateProduct(prods, id, price) ==
    [p \in DOMAIN prods |-> IF p = id THEN price ELSE prods[p]]

\* getSubtotal adding up the prices without the quantities
RECURSIVE getSubtotal_ignoringQuantity(_)
getSubtotal_ignoringQuantity(its) ==
    IF its = << >> THEN 0
    ELSE getSubtotal_ignoringQuantity(SubSeq(its, 1, Len(its) - 1))
         + its[Len(its)].price

RECURSIVE getSubtotal(_)
getSubtotal(its) ==
    IF its = << >> THEN 0
    ELSE getSubtotal(SubSeq(its, 1, Len(its) - 1))
         + its[Len(its)].price * its[Len(its)].quantity

\* Math.round((subtotal * taxRate) * 100) / 100: the product in whole cents,
\* halves rounded up, as an amount
calculateTax(subtotal, taxRate) == ((subtotal * taxRate + 500) \div 1000) * 10

\* Math.round((subtotal + tax) * 100) / 100
calculateTotal(subtotal, tax) == ((subtotal + tax + 5) \div 10) * 10

getTax(its, taxRate) == calculateTax(getSubtotal(its), taxRate)

\* getTotal leaving the tax out
getTotal_withoutTax(its, taxRate) == getSubtotal(its)

getTotal(its, taxRate) == getSubtotal(its) + getTax(its, taxRate)

(***************************************************************************)
(* Tender text of the payment modal.                                       *)
(***************************************************************************)
Digit == {"0", "1", "2", "3", "4", "5", "6", "7", "8", "9"}

DigitVal == ("0" :> 0) @@ ("1" :> 1) @@ ("2" :> 2) @@ ("3" :> 3) @@ ("4" :> 4)
            @@ ("5" :> 5) @@ ("6" :> 6) @@ ("7" :> 7) @@ ("8" :> 8) @@ ("9" :> 9)

DigitChar == <<"1", "2", "3", "4", "5", "6", "7", "8", "9">>

CharOf(d) == IF d = 0 THEN "0" ELSE DigitChar[d]

\* length of the longest prefix of s made of digits
RECURSIVE DigitsPrefixLen(_)
DigitsPrefixLen(s) ==
    IF s = << >> \/ Head(s) \notin Digit THEN 0
    ELSE 1 + DigitsPrefixLen(Tail(s))

RECURSIVE DigitsValue(_)
DigitsValue(s) ==
    IF s = << >> THEN 0
    ELSE DigitsValue(SubSeq(s, 1, Len(s) - 1)) * 10 + DigitVal[s[Len(s)]]

\* thousandths denoted by the digits after the decimal point; digits after
\* the third are below the resolution of the model
FractionMills(fr) ==
    IF fr = << >> THEN 0
    ELSE IF Len(fr) = 1 THEN DigitVal[fr[1]] * 100
    ELSE IF Len(fr) = 2 THEN DigitVal[fr[1]] * 100 + DigitVal[fr[2]] * 10
    ELSE DigitVal[fr[1]] * 100 + DigitVal[fr[2]] * 10 + DigitVal[fr[3]]

\* parseFloat on a text of digits and points: the longest numeric prefix,
\* NaN when there is none
parseFloat(s) ==
    LET n == DigitsPrefixLen(s)
        rest == SubSeq(s, n + 1, Len(s))
        hasDot == rest # << >> /\ Head(rest) = "."
        fr == IF hasDot
              THEN SubSeq(Tail(rest), 1, DigitsPrefixLen(Tail(rest)))
              ELSE << >>
    IN  IF n = 0 /\ fr = << >> THEN NaN
        ELSE Num(DigitsValue(SubSeq(s, 1, n)) * 1000 + FractionMills(fr))

RECURSIVE IntDigits(_)
IntDigits(n) ==
    IF n < 10 THEN <<CharOf(n)>>
    ELSE IntDigits(n \div 10) \o <<CharOf(n % 10)>>

\* amount.toString()
numberToString(amount) ==
    LET whole == IntDigits(amount \div 1000)
        fr == amount % 1000
    IN  IF fr = 0 THEN whole
        ELSE IF fr % 100 = 0 THEN whole \o <<".", CharOf(fr \div 100)>>
        ELSE IF fr % 10 = 0
        THEN whole \o <<".", CharOf(fr \div 100), CharOf((fr \div 10) % 10)>>
        ELSE whole \o <<".", CharOf(fr \div 100), CharOf((fr \div 10) % 10),
                        CharOf(fr % 10)>>

Includes(s, ch) == \E i \in DOMAIN s : s[i] = ch

\* s.split('.')[1]: the text between the first and the second point
SplitSecond(s) ==
    LET first == CHOOSE i \in DOMAIN s :
                    s[i] = "." /\ \A j \in 1..(i - 1) : s[j] # "."
        after == SubSeq(s, first + 1, Len(s))
        stop == IF Includes(after, ".")
                THEN (CHOOSE i \in DOMAIN after :
                         after[i] = "." /\ \A j \in 1..(i - 1) : after[j] # ".") - 1
                ELSE Len(after)
    IN  SubSeq(after, 1, stop)

handleKeypadInput(prev, value) ==
    IF value = "clear" THEN << >>
    ELSE IF value = "backspace" THEN SubSeq(prev, 1, Len(prev) - 1)
    ELSE LET newAmount == prev \o <<value>>
         IN  IF Includes(newAmount, ".") /\ Len(SplitSecond(newAmount)) > 2
             THEN prev
             ELSE newAmount

change(amountPaidText, total) == NumMinus(parseFloat(amountPaidText), Num(total))

\* the "Change:" line showing the raw difference
displayedChange_raw(amountPaidText, total) == change(amountPaidText, total)

\* the amount shown after "Change:" under the tender field
displayedChange(amountPaidText, total) ==
    MathMax(Num(0), change(amountPaidText, total))

\* the amount of the "Insufficient amount: ... more needed" line, << >> when
\* the line is not rendered
insufficientAmount(amountPaidText, total) ==
    IF NumLT(change(amountPaidText, total), Num(0))
    THEN <<MathAbs(change(amountPaidText, total))>>
    ELSE << >>

\* canProcessPayment comparing with > instead of >=
canProcessPayment_strict(method, amountPaidText, total) ==
    IF method = "cash"
    THEN NumLT(Num(total), parseFloat(amountPaidText))
    ELSE TRUE

canProcessPayment(method, amountPaidText, total) ==
    IF method = "cash"
    THEN NumGE(parseFloat(amountPaidText), Num(total))
    ELSE TRUE

(***************************************************************************)
(* Transaction store.                                                      *)
(***************************************************************************)
\* Math.random().toString(36).substr(2, 9) + Date.now().toString(36)
generateId(r, clock) == <<r, clock>>

\* RCP-<last six digits of the millisecond clock>-<four random characters>
generateReceiptNumber(clock, r) == <<clock % ReceiptClockMod, r>>

DateOf(ms) == [type |-> "Date", ms |-> ms]

\* the object handlePayment hands to addTransaction, built from the values
\* its closure captured
\* transactionOf recording the tender field whatever the payment method
transactionOf_tenderAlways(c) ==
    [items |-> c.cartItems,
     subtotal |-> c.subtotal,
     tax |-> c.tax,
     total |-> c.total,
     paymentMethod |-> c.paymentMethod,
     amountPaid |-> parseFloat(c.amountPaid),
     change |-> c.change,
     cashierId |-> c.user,
     cashierName |-> mockUsers[c.user]]

transactionOf(c) ==
    [items |-> c.cartItems,
     subtotal |-> c.subtotal,
     tax |-> c.tax,
     total |-> c.total,
     paymentMethod |-> c.paymentMethod,
     amountPaid |-> IF c.paymentMethod = "cash"
                    THEN parseFloat(c.amountPaid) ELSE Num(c.total),
     change |-> IF c.paymentMethod = "cash" THEN c.change ELSE Num(0),
     cashierId |-> c.user,
     cashierName |-> mockUsers[c.user]]

addTransaction(txs, data, id, clock, receiptNumber) ==
    <<[id |-> id,
       items |-> data.items,
       subtotal |-> data.subtotal,
       tax |-> data.tax,
       total |-> data.total,
       paymentMethod |-> data.paymentMethod,
       amountPaid |-> data.amountPaid,
       change |-> data.change,
       cashierId |-> data.cashierId,
       cashierName |-> data.cashierName,
       timestamp |-> DateOf(clock),
       receiptNumber |-> receiptNumber]>> \o txs

\* a >= b where b is a Date: a string on the left converts to NaN
TimestampGE(a, b) == a.type = "Date" /\ a.ms >= b.ms

TimestampLE(a, b) == a.type = "Date" /\ a.ms <= b.ms

getTransactionsByDate(txs, startDate, endDate) ==
    SelectSeq(txs, LAMBDA t : TimestampGE(t.timestamp, startDate)
                              /\ TimestampLE(t.timestamp, endDate))

\* JSON.stringify of a Date gives its ISO-8601 string, of an invalid Date
\* null; a string or null stays what it is
toJSON(ts) ==
    IF ts.type = "Invalid Date" THEN [type |-> "null", ms |-> 0]
    ELSE IF ts.type \in {"null", "garbage"} THEN ts
    ELSE [type |-> "string", ms |-> ts.ms]

\* what the persist middleware writes under 'transaction-storage'
serialize(txs) == [i \in DOMAIN txs |-> [txs[i] EXCEPT !.timestamp = toJSON(@)]]

\* what the persist middleware restores: JSON.parse with no reviver and no
\* onRehydrateStorage hook, so every value is kept as parsed
rehydrate(stored) == stored

(***************************************************************************)
(* Settings store and settings form.  Of the settings, the tax rate is the *)
(* one the sales page reads; the store name stands for the required texts  *)
(* of the form.                                                            *)
(***************************************************************************)
defaultStoreName == "My Store"

\* validateForm accepting every tax rate
validateForm_anyRate(form) == form.storeName # ""

\* validateForm: the required text is there and the rate is within 0..1
validateForm(form) ==
    /\ form.storeName # ""
    /\ ~(form.taxRate < 0 \/ form.taxRate > 100)

\* updateSettings(updates), on the tax rate
updateSettings(rate, updates) == updates.taxRate

(***************************************************************************)
(* Authentication store.                                                   *)
(***************************************************************************)
\* the createdAt of no user
NoDate == [type |-> "null", ms |-> 0]

\* a stored string that is not a date
Unparsable == [type |-> "garbage", ms |-> 0]

\* new Date(value) for a Date or a string
newDate(value) ==
    IF value.type \in {"Date", "string"}
    THEN [type |-> "Date", ms |-> value.ms]
    ELSE [type |-> "Invalid Date", ms |-> 0]

\* what the persist middleware writes under 'auth-storage'
authSerialize(u, created) == [user |-> u, createdAt |-> toJSON(created)]

\* the hook that leaves createdAt as it was parsed
onRehydrateStorage_noConversion(state) == state

\* the onRehydrateStorage hook of the store, on the parsed state
onRehydrateStorage(state) ==
    IF state.user # NoUser /\ state.createdAt.type # "null"
    THEN [state EXCEPT !.createdAt = newDate(state.createdAt)]
    ELSE state

\* new Date(t.timestamp).getTime()
getTime(ts) == ts.ms

\* position at which a stable descending sort puts t into the sorted s
RECURSIVE InsertDesc(_, _)
InsertDesc(s, t) ==
    IF s = << >> THEN <<t>>
    ELSE IF getTime(Head(s).timestamp) >= getTime(t.timestamp)
         THEN <<Head(s)>> \o InsertDesc(Tail(s), t)
         ELSE <<t>> \o s

\* txs.sort((a, b) => time(b) - time(a)): stable, newest first
RECURSIVE sortByTimestampDesc(_)
sortByTimestampDesc(txs) ==
    IF txs = << >> THEN << >>
    ELSE InsertDesc(sortByTimestampDesc(SubSeq(txs, 1, Len(txs) - 1)),
                    txs[Len(txs)])

(***************************************************************************)
(* State.                                                                  *)
(***************************************************************************)
VARIABLES
    items,               \* useCartStore: the cart lines
    user,                \* useAuthStore: id of the logged-in user, or NoUser
    taxRate,             \* useSettingsStore: settings.taxRate, in percent
    formData,            \* SettingsPage: the form's copy of the settings
    savePending,         \* handleSave calls suspended at their await
    products,            \* useProductStore: catalog price of each product
    isActive,            \* useProductStore: isActive of each product
    searchTerm,          \* useProductStore
    selectedCategory,    \* useProductStore
    createdAt,           \* useAuthStore: user.createdAt, NoDate without a user
    authStorage,         \* localStorage['auth-storage']
    loadedAt,            \* when the application was loaded (new Date() of mockUsers)
    transactions,        \* useTransactionStore: the log, in memory
    storage,             \* localStorage['transaction-storage']
    isPaymentModalOpen,  \* SalesPage
    paymentMethod,       \* PaymentModal
    amountPaid,          \* PaymentModal: the tender text
    isProcessing,        \* PaymentModal
    showReceipt,         \* PaymentModal
    receiptData,         \* PaymentModal: << >> for null, else <<data>>
    pending,             \* handlePayment calls suspended at their await
    now,                 \* the wall clock read by Date.now() / new Date()
    attempt              \* what the last payment handler of the modal did

cartVars == <<items>>

authVars == <<createdAt, authStorage, loadedAt>>

settingsVars == <<taxRate, formData, savePending>>

productVars == <<products, isActive, searchTerm, selectedCategory>>

storeVars == <<user, settingsVars, productVars, authVars>>

logVars == <<transactions, storage>>

modalVars == <<isPaymentModalOpen, paymentMethod, amountPaid, isProcessing,
               showReceipt, receiptData>>

vars == <<items, user, taxRate, formData, savePending, products, isActive,
          searchTerm, selectedCategory, createdAt, authStorage, loadedAt,
          transactions, storage, isPaymentModalOpen, paymentMethod, amountPaid,
          isProcessing, showReceipt, receiptData, pending, now, attempt>>

Init ==
    /\ items = << >>
    /\ user = NoUser
    /\ taxRate = DefaultTaxRate
    /\ formData = [storeName |-> defaultStoreName, taxRate |-> DefaultTaxRate]
    /\ savePending = << >>
    /\ products = mockProducts
    /\ isActive = [p \in ProductIds |-> TRUE]
    /\ searchTerm = << >>
    /\ selectedCategory = ""
    /\ createdAt = NoDate
    /\ authStorage = authSerialize(NoUser, NoDate)
    /\ loadedAt = 0
    /\ transactions = << >>
    /\ storage = << >>
    /\ isPaymentModalOpen = FALSE
    /\ paymentMethod = "cash"
    /\ amountPaid = << >>
    /\ isProcessing = FALSE
    /\ showReceipt = FALSE
    /\ receiptData = << >>
    /\ pending = << >>
    /\ now = 0
    /\ attempt = "Idle"

\* the catalog entry the product grid hands to addItem
Product(p) == [id |-> p, price |-> products[p]]

\* the products shown in the grid of the sales page
filteredProducts ==
    Range(getFilteredProducts(isActive, searchTerm, selectedCategory))

\* what SalesPage passes to the modal on each render
subtotal == getSubtotal(items)

tax == getTax(items, taxRate)

total == getTotal(items, taxRate)

LineQuantity(pid) ==
    IF HasLine(items, pid)
    THEN items[CHOOSE i \in DOMAIN items : items[i].productId = pid].quantity
    ELSE 0

(***************************************************************************)
(* Cart operations.                                                        *)
(***************************************************************************)
AddItem(P, maxQty) ==
    \E p \in P \cap filteredProducts :
        /\ LineQuantity(p) < maxQty
        /\ items' = addItem(items, Product(p))
        /\ UNCHANGED <<storeVars, logVars, modalVars, pending, now, attempt>>

RemoveItem(P) ==
    \E p \in P :
        /\ items' = removeItem(items, p)
        /\ UNCHANGED <<storeVars, logVars, modalVars, pending, now, attempt>>

UpdateQuantity(P, maxQty) ==
    \E p \in P, q \in (-1)..maxQty :
        /\ items' = updateQuantity(items, p, q)
        /\ UNCHANGED <<storeVars, logVars, modalVars, pending, now, attempt>>

ClearCart ==
    /\ items' = clearCart
    /\ UNCHANGED <<storeVars, logVars, modalVars, pending, now, attempt>>

\* the edit form of the product management page saving a new price
UpdateProduct(P, Prices) ==
    \E p \in P, price \in Prices :
        /\ price # products[p]
        /\ products' = updateProduct(products, p, price)
        /\ UNCHANGED <<cartVars, user, settingsVars, isActive, searchTerm,
                       selectedCategory, authVars, logVars, modalVars, pending, now,
                       attempt>>

\* the status toggle of the product management page
toggleProductStatus(P) ==
    \E p \in P :
        /\ isActive' = [isActive EXCEPT ![p] = ~isActive[p]]
        /\ UNCHANGED <<cartVars, user, settingsVars, products, searchTerm,
                       selectedCategory, authVars, logVars, modalVars, pending, now,
                       attempt>>

\* the search field of the sales page
setSearchTerm(Terms) ==
    \E term \in Terms :
        /\ term # searchTerm
        /\ searchTerm' = term
        /\ UNCHANGED <<cartVars, user, settingsVars, products, isActive,
                       selectedCategory, authVars, logVars, modalVars, pending, now,
                       attempt>>

\* the category buttons of the sales page
setSelectedCategory(Categories) ==
    \E category \in Categories :
        /\ category # selectedCategory
        /\ selectedCategory' = category
        /\ UNCHANGED <<cartVars, user, settingsVars, products, isActive, searchTerm,
                       authVars, logVars, modalVars, pending, now, attempt>>

(***************************************************************************)
(* Settings page.                                                          *)
(***************************************************************************)
\* opening the settings page: the form starts as a copy of the settings
SettingsPage_mount ==
    /\ formData' = [storeName |-> defaultStoreName, taxRate |-> taxRate]
    /\ UNCHANGED <<cartVars, user, taxRate, savePending, productVars, authVars, logVars,
                   modalVars, pending, now, attempt>>

\* typing into the tax rate field or the store name field
handleInputChange(Rates, Names) ==
    \/ \E r \in Rates :
          /\ formData' = [formData EXCEPT !.taxRate = r]
          /\ UNCHANGED <<cartVars, user, taxRate, savePending, productVars, authVars,
                         logVars, modalVars, pending, now, attempt>>
    \/ \E n \in Names :
          /\ formData' = [formData EXCEPT !.storeName = n]
          /\ UNCHANGED <<cartVars, user, taxRate, savePending, productVars, authVars,
                         logVars, modalVars, pending, now, attempt>>

\* the form differs from the stored settings
isChanged == formData # [storeName |-> defaultStoreName, taxRate |-> taxRate]

\* the Save Settings button, up to the await; it is disabled while a save
\* is running or when nothing was changed
handleSave ==
    /\ isChanged
    /\ savePending = << >>
    /\ savePending' = IF validateForm(formData) THEN <<formData>> ELSE << >>
    /\ UNCHANGED <<cartVars, user, taxRate, formData, productVars, authVars, logVars,
                   modalVars, pending, now, attempt>>

\* the rest of handleSave, once the delay is over
handleSaveDone ==
    /\ savePending # << >>
    /\ taxRate' = updateSettings(taxRate, Head(savePending))
    /\ savePending' = << >>
    /\ UNCHANGED <<cartVars, user, formData, productVars, authVars, logVars, modalVars,
                   pending, now, attempt>>

\* the Reset button
handleReset ==
    /\ isChanged
    /\ savePending = << >>
    /\ formData' = [storeName |-> defaultStoreName, taxRate |-> taxRate]
    /\ UNCHANGED <<cartVars, user, taxRate, savePending, productVars, authVars, logVars,
                   modalVars, pending, now, attempt>>

(***************************************************************************)
(* Authentication.                                                         *)
(***************************************************************************)
Login(U) ==
    \E u \in U :
        /\ user' = u
        /\ createdAt' = DateOf(loadedAt)
        /\ authStorage' = authSerialize(user', createdAt')
        /\ UNCHANGED <<cartVars, settingsVars, productVars, loadedAt, logVars, modalVars,
                       pending, now, attempt>>

Logout ==
    /\ user' = NoUser
    /\ createdAt' = NoDate
    /\ authStorage' = authSerialize(user', createdAt')
    /\ UNCHANGED <<cartVars, settingsVars, productVars, loadedAt, logVars, modalVars,
                   pending, now, attempt>>

(***************************************************************************)
(* Sales page and payment modal.                                           *)
(***************************************************************************)
\* the Process Payment button of the cart panel
SalesPage_handlePayment ==
    /\ Len(items) > 0
    /\ isPaymentModalOpen' = TRUE
    /\ UNCHANGED <<cartVars, storeVars, logVars, paymentMethod, amountPaid,
                   isProcessing, showReceipt, receiptData, pending, now, attempt>>

PaymentView == isPaymentModalOpen /\ ~showReceipt

setPaymentMethod(M) ==
    \E m \in M :
        /\ PaymentView
        /\ paymentMethod' = m
        /\ UNCHANGED <<cartVars, storeVars, logVars, isPaymentModalOpen, amountPaid,
                       isProcessing, showReceipt, receiptData, pending, now, attempt>>

\* the Quick Amount buttons [total, 50, 100]
QuickAmounts == <<total, QuickAmount50, QuickAmount100>>

QuickAmount(Buttons) ==
    \E amount \in {QuickAmounts[b] : b \in Buttons} :
        /\ PaymentView
        /\ paymentMethod = "cash"
        /\ amountPaid' = numberToString(amount)
        /\ UNCHANGED <<cartVars, storeVars, logVars, isPaymentModalOpen, paymentMethod,
                       isProcessing, showReceipt, receiptData, pending, now, attempt>>

\* the keys of the on-screen keypad
keypadButtons == {"7", "8", "9", "4", "5", "6", "1", "2", "3", "clear", "0", "."}

\* a key of the on-screen keypad
Keypad(Keys, maxLen) ==
    \E value \in Keys \cap keypadButtons :
        /\ PaymentView
        /\ paymentMethod = "cash"
        /\ Len(handleKeypadInput(amountPaid, value)) <= maxLen
        /\ amountPaid' = handleKeypadInput(amountPaid, value)
        /\ UNCHANGED <<cartVars, storeVars, logVars, isPaymentModalOpen, paymentMethod,
                       isProcessing, showReceipt, receiptData, pending, now, attempt>>

\* the Amount Received input
AmountInput(Texts) ==
    \E text \in Texts :
        /\ PaymentView
        /\ paymentMethod = "cash"
        /\ amountPaid' = text
        /\ UNCHANGED <<cartVars, storeVars, logVars, isPaymentModalOpen, paymentMethod,
                       isProcessing, showReceipt, receiptData, pending, now, attempt>>

\* a closure whose tax was computed with the default rate
Closure_defaultRate ==
    [cartItems |-> items,
     subtotal |-> subtotal,
     tax |-> getTax(items, DefaultTaxRate),
     total |-> total,
     taxRate |-> taxRate,
     paymentMethod |-> paymentMethod,
     amountPaid |-> amountPaid,
     change |-> change(amountPaid, total),
     user |-> user,
     mounted |-> TRUE]

\* the values a handlePayment call holds on to across its await
Closure ==
    [cartItems |-> items,
     subtotal |-> subtotal,
     tax |-> tax,
     total |-> total,
     taxRate |-> taxRate,
     paymentMethod |-> paymentMethod,
     amountPaid |-> amountPaid,
     change |-> change(amountPaid, total),
     user |-> user,
     mounted |-> TRUE]

InFlight == Len(transactions) + Len(pending)

\* a Complete Payment button that stays enabled while processing
PaymentModal_handlePayment_alwaysEnabled(maxTx) ==
    /\ PaymentView
    /\ InFlight < maxTx
    /\ IF ~canProcessPayment(paymentMethod, amountPaid, total) \/ user = NoUser
       THEN /\ attempt' = "Rejected"
            /\ UNCHANGED <<isProcessing, pending>>
       ELSE /\ isProcessing' = TRUE
            /\ pending' = Append(pending, Closure)
            /\ attempt' = "Processing"
    /\ UNCHANGED <<cartVars, storeVars, logVars, isPaymentModalOpen, paymentMethod,
                   amountPaid, showReceipt, receiptData, now>>

\* the Complete Payment button, up to the await
PaymentModal_handlePayment(maxTx) ==
    /\ PaymentView
    /\ ~isProcessing
    /\ InFlight < maxTx
    /\ IF ~canProcessPayment(paymentMethod, amountPaid, total) \/ user = NoUser
       THEN /\ attempt' = "Rejected"
            /\ UNCHANGED <<isProcessing, pending>>
       ELSE /\ isProcessing' = TRUE
            /\ pending' = Append(pending, Closure)
            /\ attempt' = "Processing"
    /\ UNCHANGED <<cartVars, storeVars, logVars, isPaymentModalOpen, paymentMethod,
                   amountPaid, showReceipt, receiptData, now>>

Without(s, i) == SubSeq(s, 1, i - 1) \o SubSeq(s, i + 1, Len(s))

\* the success path without the finally block
PaymentModal_handlePaymentCommit_noFinally(R) ==
    \E i \in DOMAIN pending, r1 \in R, r2 \in R, r3 \in R :
        LET c == pending[i]
            transaction == transactionOf(c)
        IN  /\ transactions' = addTransaction(transactions, transaction,
                                   generateId(r1, now), now,
                                   generateReceiptNumber(now, r2))
            /\ storage' = serialize(transactions')
            /\ pending' = Without(pending, i)
            /\ IF c.mounted
               THEN /\ receiptData' = <<[receiptNumber |-> generateReceiptNumber(now, r3),
                                         amountPaid |-> transaction.amountPaid,
                                         change |-> transaction.change]>>
                    /\ showReceipt' = TRUE
                    /\ isProcessing' = isProcessing
                    /\ attempt' = "Committed"
               ELSE UNCHANGED <<receiptData, showReceipt, isProcessing, attempt>>
            /\ UNCHANGED <<cartVars, storeVars, isPaymentModalOpen, paymentMethod,
                           amountPaid, now>>

\* the rest of the try block, once the delay is over
PaymentModal_handlePaymentCommit(R) ==
    \E i \in DOMAIN pending, r1 \in R, r2 \in R, r3 \in R :
        LET c == pending[i]
            transaction == transactionOf(c)
        IN  /\ transactions' = addTransaction(transactions, transaction,
                                   generateId(r1, now), now,
                                   generateReceiptNumber(now, r2))
            /\ storage' = serialize(transactions')
            /\ pending' = Without(pending, i)
            /\ IF c.mounted
               THEN /\ receiptData' = <<[receiptNumber |-> generateReceiptNumber(now, r3),
                                         amountPaid |-> transaction.amountPaid,
                                         change |-> transaction.change]>>
                    /\ showReceipt' = TRUE
                    /\ isProcessing' = FALSE
                    /\ attempt' = "Committed"
               ELSE UNCHANGED <<receiptData, showReceipt, isProcessing, attempt>>
            /\ UNCHANGED <<cartVars, storeVars, isPaymentModalOpen, paymentMethod,
                           amountPaid, now>>

\* a failure path that has already written the store when it fails
PaymentModal_handlePaymentCatch_afterWrite ==
    \E i \in DOMAIN pending :
        /\ pending' = Without(pending, i)
        /\ transactions' = addTransaction(transactions, transactionOf(pending[i]),
                               generateId(0, now), now, generateReceiptNumber(now, 0))
        /\ storage' = serialize(transactions')
        /\ IF pending[i].mounted
           THEN isProcessing' = FALSE /\ attempt' = "Failed"
           ELSE UNCHANGED <<isProcessing, attempt>>
        /\ UNCHANGED <<cartVars, storeVars, isPaymentModalOpen, paymentMethod,
                       amountPaid, showReceipt, receiptData, now>>

\* an exception in the try block before the store is written: catch, finally
PaymentModal_handlePaymentCatch ==
    \E i \in DOMAIN pending :
        /\ pending' = Without(pending, i)
        /\ IF pending[i].mounted
           THEN isProcessing' = FALSE /\ attempt' = "Failed"
           ELSE UNCHANGED <<isProcessing, attempt>>
        /\ UNCHANGED <<cartVars, storeVars, logVars, isPaymentModalOpen, paymentMethod,
                       amountPaid, showReceipt, receiptData, now>>

\* a close handler that also runs onPaymentComplete
handleClose_clearingCart ==
    /\ isPaymentModalOpen
    /\ IF ~isProcessing
       THEN /\ amountPaid' = << >>
            /\ showReceipt' = FALSE
            /\ receiptData' = << >>
            /\ isPaymentModalOpen' = FALSE
            /\ items' = clearCart
            /\ attempt' = IF showReceipt THEN "Dismissed" ELSE "Cancelled"
       ELSE UNCHANGED <<amountPaid, showReceipt, receiptData, isPaymentModalOpen,
                        attempt, items>>
    /\ UNCHANGED <<storeVars, logVars, paymentMethod, isProcessing, pending, now>>

\* a close handler without the isProcessing test
handleClose_whileProcessing ==
    /\ isPaymentModalOpen
    /\ amountPaid' = << >>
    /\ showReceipt' = FALSE
    /\ receiptData' = << >>
    /\ isPaymentModalOpen' = FALSE
    /\ attempt' = IF showReceipt THEN "Dismissed" ELSE "Cancelled"
    /\ UNCHANGED <<cartVars, storeVars, logVars, paymentMethod, isProcessing,
                   pending, now>>

\* Cancel, the modal's X, a backdrop click, Escape
handleClose ==
    /\ isPaymentModalOpen
    /\ IF ~isProcessing
       THEN /\ amountPaid' = << >>
            /\ showReceipt' = FALSE
            /\ receiptData' = << >>
            /\ isPaymentModalOpen' = FALSE
            /\ attempt' = IF showReceipt THEN "Dismissed" ELSE "Cancelled"
       ELSE UNCHANGED <<amountPaid, showReceipt, receiptData, isPaymentModalOpen,
                        attempt>>
    /\ UNCHANGED <<cartVars, storeVars, logVars, paymentMethod, isProcessing,
                   pending, now>>

\* the Complete Transaction button of the receipt view:
\* onPaymentComplete() then handleClose()
handleCompleteTransaction ==
    /\ isPaymentModalOpen
    /\ showReceipt
    /\ items' = clearCart
    /\ isPaymentModalOpen' = FALSE
    /\ IF ~isProcessing
       THEN amountPaid' = << >> /\ showReceipt' = FALSE /\ receiptData' = << >>
       ELSE UNCHANGED <<amountPaid, showReceipt, receiptData>>
    /\ attempt' = "Completed"
    /\ UNCHANGED <<storeVars, logVars, paymentMethod, isProcessing, pending, now>>

(***************************************************************************)
(* Environment, other pages, restart.                                      *)
(***************************************************************************)
\* the wall clock is set by the host and may step either way
Tick ==
    \E t \in 0..MaxClock :
        /\ t # now
        /\ now' = t
        /\ UNCHANGED <<cartVars, storeVars, logVars, modalVars, pending, attempt>>

\* leaving the sales page for the dashboard: the sales page unmounts (its
\* modal state is gone, suspended handlers keep running detached) and the
\* dashboard's recentTransactions sorts the store's array in place
DashboardPage_recentTransactions ==
    /\ transactions' = sortByTimestampDesc(transactions)
    /\ isPaymentModalOpen' = FALSE
    /\ paymentMethod' = "cash"
    /\ amountPaid' = << >>
    /\ isProcessing' = FALSE
    /\ showReceipt' = FALSE
    /\ receiptData' = << >>
    /\ pending' = [i \in DOMAIN pending |-> [pending[i] EXCEPT !.mounted = FALSE]]
    /\ attempt' = "Idle"
    /\ UNCHANGED <<cartVars, storeVars, storage, now>>

\* closing and reopening the application: every store is restored from its
\* storage key, component state starts afresh, suspended handlers are gone
Reload ==
    /\ transactions' = rehydrate(storage)
    /\ user' = onRehydrateStorage(authStorage).user
    /\ createdAt' = onRehydrateStorage(authStorage).createdAt
    /\ loadedAt' = now
    /\ isPaymentModalOpen' = FALSE
    /\ paymentMethod' = "cash"
    /\ amountPaid' = << >>
    /\ isProcessing' = FALSE
    /\ showReceipt' = FALSE
    /\ receiptData' = << >>
    /\ pending' = << >>
    /\ attempt' = "Idle"
    /\ UNCHANGED <<cartVars, settingsVars, productVars, authStorage, storage, now>>

\* the value stored under 'auth-storage' gets a createdAt that is no date
AuthStorageCorrupted ==
    /\ authStorage.user # NoUser
    /\ authStorage.createdAt # Unparsable
    /\ authStorage' = [authStorage EXCEPT !.createdAt = Unparsable]
    /\ UNCHANGED <<cartVars, user, settingsVars, productVars, createdAt, loadedAt, logVars,
                   modalVars, pending, now, attempt>>

\* the value stored under 'transaction-storage' gets a timestamp that is no
\* date
TransactionStorageCorrupted ==
    \E i \in DOMAIN storage :
        /\ storage[i].timestamp # Unparsable
        /\ storage' = [storage EXCEPT ![i].timestamp = Unparsable]
        /\ UNCHANGED <<cartVars, storeVars, transactions, modalVars, pending, now,
                       attempt>>

(***************************************************************************)
(* Specifications.                                                         *)
(***************************************************************************)
\* the cart store on its own
NextCart ==
    \/ AddItem(ProductIds, MaxQty)
    \/ RemoveItem(ProductIds)
    \/ UpdateQuantity(ProductIds, MaxQty)
    \/ ClearCart

SpecCart == Init /\ [][NextCart]_vars

\* the cart store next to a catalog whose prices are edited
CatalogProducts == {"1", "2"}

CatalogPrices == {3500, 4000, 125}

NextCatalog ==
    \/ AddItem(CatalogProducts, MaxQty)
    \/ RemoveItem(CatalogProducts)
    \/ UpdateQuantity(CatalogProducts, MaxQty)
    \/ ClearCart
    \/ UpdateProduct(CatalogProducts, CatalogPrices)

\* tax rates the cart's getTax and getTotal are asked about
TaxRates == {0, DefaultTaxRate, 10}

SpecCatalog == Init /\ [][NextCatalog]_vars

\* products, users, typed tenders and random draws used by the payment flow
PayProducts == {"1"}

PayUsers == {"1"}

PayButtons == {1, 2}

PayRands == {0}

\* the sales page with its payment modal
Next ==
    \/ AddItem(PayProducts, MaxQty)
    \/ RemoveItem(PayProducts)
    \/ UpdateQuantity(PayProducts, MaxQty)
    \/ ClearCart
    \/ Login(PayUsers)
    \/ Logout
    \/ SalesPage_handlePayment
    \/ setPaymentMethod(PaymentMethods)
    \/ QuickAmount(PayButtons)
    \/ PaymentModal_handlePayment(PayMaxTx)
    \/ PaymentModal_handlePaymentCommit(PayRands)
    \/ PaymentModal_handlePaymentCatch
    \/ handleClose
    \/ handleCompleteTransaction

Spec == Init /\ [][Next]_vars

\* the tender entry of the payment modal
TenderKeys == {"0", "1", "5", ".", "clear"}

TenderTexts == {<<"7", ".", "5">>, <<"a">>}

TenderButtons == {1, 2, 3}

NextTender ==
    \/ AddItem(PayProducts, MaxQty)
    \/ SalesPage_handlePayment
    \/ setPaymentMethod(PaymentMethods)
    \/ Keypad(TenderKeys, MaxTenderLen)
    \/ AmountInput(TenderTexts)
    \/ QuickAmount(TenderButtons)
    \/ handleClose

SpecTender == Init /\ [][NextTender]_vars

\* the transaction log across page changes, with a moving clock
LogProducts == {"1"}

LogMethods == {"card"}

NextLog ==
    \/ AddItem(LogProducts, 1)
    \/ Login(PayUsers)
    \/ SalesPage_handlePayment
    \/ setPaymentMethod(LogMethods)
    \/ PaymentModal_handlePayment(MaxTx)
    \/ PaymentModal_handlePaymentCommit(Rands)
    \/ handleCompleteTransaction
    \/ Tick
    \/ DashboardPage_recentTransactions

SpecLog == Init /\ [][NextLog]_vars

\* the transaction log across restarts of the application
NextReload ==
    \/ AddItem(LogProducts, 1)
    \/ Login(PayUsers)
    \/ SalesPage_handlePayment
    \/ setPaymentMethod(LogMethods)
    \/ PaymentModal_handlePayment(MaxTx)
    \/ PaymentModal_handlePaymentCommit(PayRands)
    \/ handleCompleteTransaction
    \/ Tick
    \/ Reload

SpecReload == Init /\ [][NextReload]_vars

\* one payment modal whose confirmation delay always ends: the timer of the
\* awaited promise fires, so the rest of handlePayment is eventually run
AttemptMethods == {"cash", "card"}

AttemptButtons == {2}

NextAttempt ==
    \/ AddItem(PayProducts, 1)
    \/ Login(PayUsers)
    \/ Logout
    \/ SalesPage_handlePayment
    \/ setPaymentMethod(AttemptMethods)
    \/ QuickAmount(AttemptButtons)
    \/ PaymentModal_handlePayment(MaxTx)
    \/ PaymentModal_handlePaymentCommit(PayRands)
    \/ PaymentModal_handlePaymentCatch
    \/ handleClose
    \/ handleCompleteTransaction

SpecAttempt ==
    /\ Init
    /\ [][NextAttempt]_vars
    /\ WF_vars(PaymentModal_handlePaymentCommit(PayRands))

\* the product grid of the sales page next to the product management page
SearchTerms == {<< >>, <<"E", "E">>, <<"b", "a", "c", "o", "n">>}

SearchCategories == {"", "Beverages", "Food"}

GridProducts == {"1", "2", "4"}

NextGrid ==
    \/ AddItem(GridProducts, 1)
    \/ RemoveItem(GridProducts)
    \/ UpdateQuantity(GridProducts, 1)
    \/ ClearCart
    \/ toggleProductStatus(GridProducts)
    \/ setSearchTerm(SearchTerms)
    \/ setSelectedCategory(SearchCategories)

SpecGrid == Init /\ [][NextGrid]_vars

\* the settings page
FormRates == {0 - 5, 0, DefaultTaxRate, 50, 100, 150}

FormNames == {"", defaultStoreName}

NextSettings ==
    \/ SettingsPage_mount
    \/ handleInputChange(FormRates, FormNames)
    \/ handleSave
    \/ handleSaveDone
    \/ handleReset

SpecSettings == Init /\ [][NextSettings]_vars

\* payments while the tax rate, the catalog prices and the logged-in user
\* change around them
ReconcileProducts == {"1"}

ReconcilePrices == {3500, 125}

ReconcileRates == {10}

NextReconcile ==
    \/ AddItem(ReconcileProducts, MaxQty)
    \/ RemoveItem(ReconcileProducts)
    \/ UpdateProduct(ReconcileProducts, ReconcilePrices)
    \/ handleInputChange(ReconcileRates, FormNames)
    \/ handleSave
    \/ handleSaveDone
    \/ Login(UserIds)
    \/ Logout
    \/ SalesPage_handlePayment
    \/ setPaymentMethod(LogMethods)
    \/ PaymentModal_handlePayment(PayMaxTx)
    \/ PaymentModal_handlePaymentCommit(PayRands)
    \/ handleCompleteTransaction

SpecReconcile == Init /\ [][NextReconcile]_vars

\* the stores across restarts, with storage values that may be damaged
NextPersist ==
    \/ AddItem(LogProducts, 1)
    \/ Login(UserIds)
    \/ Logout
    \/ SalesPage_handlePayment
    \/ setPaymentMethod(LogMethods)
    \/ PaymentModal_handlePayment(PayMaxTx)
    \/ PaymentModal_handlePaymentCommit(PayRands)
    \/ handleCompleteTransaction
    \/ Tick
    \/ Reload
    \/ AuthStorageCorrupted
    \/ TransactionStorageCorrupted

SpecPersist == Init /\ [][NextPersist]_vars

(***************************************************************************)
(* Properties.                                                             *)
(***************************************************************************)
\* C1: whatever sequence of addItem, removeItem, updateQuantity and clearCart
\* is applied to the empty cart, no two lines share a productId and every
\* line has quantity >= 1.
C1_CartValid ==
    /\ \A i, j \in DOMAIN items :
          items[i].productId = items[j].productId => i = j
    /\ \A i \in DOMAIN items : items[i].quantity >= 1

C1_Witness ==
    /\ Len(items) >= 2
    /\ \E i \in DOMAIN items : items[i].quantity >= 2

\* C2: the step that appends a transaction leaves the cart empty and stores
\* the cart lines as they were just before it, and every step that leaves
\* the receipt view leaves the cart empty.
C2_CommitClearsCart ==
    [][/\ Len(transactions') = Len(transactions) + 1
          => items' = << >> /\ Head(transactions').items = items
       /\ showReceipt /\ ~showReceipt' => items' = << >>]_vars

\* C3: every logged transaction has total = subtotal + tax; a cash payment
\* has amountPaid >= total and change = amountPaid - total; a card or
\* digital-wallet payment has amountPaid = total and change = 0.
C3_AmountsReconcile ==
    \A t \in Range(transactions) :
        /\ t.total = t.subtotal + t.tax
        /\ ~t.amountPaid.nan /\ ~t.change.nan
        /\ t.paymentMethod = "cash"
              => t.amountPaid.v >= t.total
                 /\ t.change.v = t.amountPaid.v - t.total
        /\ t.paymentMethod # "cash"
              => t.amountPaid.v = t.total /\ t.change.v = 0

C3_Witness ==
    /\ \E t \in Range(transactions) : t.paymentMethod = "cash" /\ t.change.v > 0
    /\ attempt = "Committed"

\* C4: a commit request made with an empty cart, an unauthorized payment or
\* no logged-in user starts no attempt and appends nothing, and the log never
\* holds a transaction without items or without a cashier.
C4_CommitGuard ==
    /\ [][(PaymentModal_handlePayment(PayMaxTx)
           /\ (items = << >>
               \/ ~canProcessPayment(paymentMethod, amountPaid, total)
               \/ user = NoUser))
          => ~isProcessing' /\ pending' = pending
             /\ transactions' = transactions]_vars
    /\ [](\A t \in Range(transactions) :
             t.items # << >> /\ t.cashierId # NoUser)

\* C5: while the modal is processing a payment the cart does not change.
C5_CartFrozenWhileProcessing ==
    [][isProcessing => items' = items]_vars

TransactionFields ==
    {"id", "items", "subtotal", "tax", "total", "paymentMethod", "amountPaid",
     "change", "cashierId", "cashierName", "timestamp", "receiptNumber"}

\* C6: the failure path of a payment attempt leaves the cart, the log and its
\* stored copy as they were and ends the processing state; the log only ever
\* changes by one complete transaction put at its head by the success path.
C6_FailureLeavesNoTrace ==
    [][/\ PaymentModal_handlePaymentCatch
          => /\ items' = items
             /\ transactions' = transactions
             /\ storage' = storage
             /\ ~isProcessing'
       /\ transactions' # transactions
          => /\ PaymentModal_handlePaymentCommit(PayRands)
             /\ Tail(transactions') = transactions
             /\ DOMAIN Head(transactions') = TransactionFields]_vars

C6_Witness ==
    /\ attempt = "Failed"
    /\ items # << >>
    /\ transactions = << >>
    /\ ~isProcessing

\* C7: closing the payment view of the modal changes neither the cart nor
\* the log, and when the close is accepted (no payment is processing) the
\* modal is closed with nothing in flight.
C7_CancelChangesNothing ==
    [][(handleClose /\ ~showReceipt)
       => /\ items' = items
          /\ transactions' = transactions
          /\ storage' = storage
          /\ pending' = pending
          /\ ~isProcessing
                => ~isPaymentModalOpen' /\ ~isProcessing' /\ pending' = << >>]_vars

C7_Witness ==
    /\ attempt = "Cancelled"
    /\ items # << >>
    /\ ~isPaymentModalOpen

\* C8: the log only ever changes by a new transaction being put at index 0
\* with every stored transaction kept as it was and in the same order.
C8_AppendOnly ==
    [][transactions' # transactions
       => /\ Len(transactions') = Len(transactions) + 1
          /\ Tail(transactions') = transactions]_vars

\* C9: the ids of the logged transactions are pairwise distinct and so are
\* their receipt numbers.
C9_UniqueIds ==
    \A i, j \in DOMAIN transactions :
        i # j => /\ transactions[i].id # transactions[j].id
                 /\ transactions[i].receiptNumber # transactions[j].receiptNumber

\* C10: reloading the log from storage gives the same transactions in the
\* same order, every timestamp a Date, and the same getTransactionsByDate.
C10_RoundTrip ==
    [][Reload
       => /\ transactions' = transactions
          /\ \A t \in Range(transactions') : t.timestamp.type = "Date"
          /\ \A a, b \in 0..MaxClock :
                getTransactionsByDate(transactions', DateOf(a), DateOf(b))
                = getTransactionsByDate(transactions, DateOf(a), DateOf(b))]_vars

\* C11: addItem of a product that has a line adds exactly 1 to that line's
\* quantity and keeps its price, its position and every other line; addItem
\* of a product without a line appends a line of quantity 1 at the catalog
\* price and keeps the existing lines; a change of a catalog price changes
\* no cart line, so an incremented line keeps the price it was added at.
C11_AddItemContract ==
    [][/\ AddItem(CatalogProducts, MaxQty)
          => \E p \in CatalogProducts :
                IF HasLine(items, p)
                THEN /\ Len(items') = Len(items)
                     /\ \A i \in DOMAIN items :
                           IF items[i].productId = p
                           THEN /\ items'[i].quantity = items[i].quantity + 1
                                /\ items'[i].price = items[i].price
                                /\ items'[i].productId = p
                           ELSE items'[i] = items[i]
                ELSE /\ Len(items') = Len(items) + 1
                     /\ SubSeq(items', 1, Len(items)) = items
                     /\ items'[Len(items')] = [productId |-> p,
                                                price |-> products[p],
                                                quantity |-> 1]
       /\ UpdateProduct(CatalogProducts, CatalogPrices) => items' = items]_vars

C11_Witness ==
    /\ Len(items) = 2
    /\ \E i \in DOMAIN items :
          /\ items[i].quantity >= 2
          /\ items[i].price # products[items[i].productId]

\* position of the line of product pid in its
LineIndex(its, pid) == CHOOSE i \in DOMAIN its : its[i].productId = pid

\* C12: on every reachable cart, updateQuantity(productId, q) with q <= 0
\* gives what removeItem(productId) gives; with q > 0 and a line for the
\* product it sets that line's quantity to exactly q and changes nothing
\* else; with q > 0 and no such line it gives the cart unchanged.
C12_UpdateQuantityContract ==
    \A p \in ProductIds, q \in (-1)..(MaxQty + 1) :
        LET r == updateQuantity(items, p, q)
        IN  IF q <= 0 THEN r = removeItem(items, p)
            ELSE IF HasLine(items, p)
            THEN /\ Len(r) = Len(items)
                 /\ \A i \in DOMAIN items :
                       IF i = LineIndex(items, p)
                       THEN /\ r[i].quantity = q
                            /\ r[i].productId = p
                            /\ r[i].price = items[i].price
                       ELSE r[i] = items[i]
            ELSE r = items

C12_Witness ==
    /\ Len(items) = 3
    /\ \E i \in DOMAIN items : items[i].quantity = MaxQty
    /\ \E p \in ProductIds : ~HasLine(items, p)

\* C13: on every reachable cart, removeItem(productId) gives the cart without
\* that product's line, the other lines unchanged and in the same order, and
\* gives the cart itself when the product has no line.
C13_RemoveItemFrame ==
    \A p \in ProductIds :
        LET r == removeItem(items, p)
        IN  IF HasLine(items, p)
            THEN LET k == LineIndex(items, p)
                 IN  /\ Len(r) = Len(items) - 1
                     /\ \A i \in 1..(k - 1) : r[i] = items[i]
                     /\ \A i \in k..(Len(items) - 1) : r[i] = items[i + 1]
            ELSE r = items

C13_Witness ==
    /\ Len(items) = 4
    /\ items[1].productId = "2"
    /\ items[4].productId = "1"

\* C14: on every reachable cart, updateQuantity(productId, 0) gives a cart
\* without a line for the product, and applying it again to that cart gives
\* the same cart.
C14_IdempotentRemoval ==
    \A p \in ProductIds :
        LET once == updateQuantity(items, p, 0)
            twice == updateQuantity(once, p, 0)
        IN  /\ ~HasLine(once, p)
            /\ HasLine(items, p) => Len(once) = Len(items) - 1
            /\ twice = once

C14_Witness ==
    /\ Len(items) = 2
    /\ \A i \in DOMAIN items : items[i].quantity = 1
    /\ items[1].productId = "3"

\* price * quantity of the lines of its, added up from the first line on
RECURSIVE LineTotals(_)
LineTotals(its) ==
    IF its = << >> THEN 0
    ELSE Head(its).price * Head(its).quantity + LineTotals(Tail(its))

\* C15: in every reachable cart getSubtotal() is the sum of captured price
\* times quantity over the lines, 0 for the empty cart, and a change of a
\* catalog price leaves it as it was.
C15_Subtotal ==
    /\ [](getSubtotal(items) = LineTotals(items))
    /\ [](items = << >> => getSubtotal(items) = 0)
    /\ [][UpdateProduct(CatalogProducts, CatalogPrices)
          => getSubtotal(items') = getSubtotal(items)]_vars

C15_Witness ==
    /\ Len(items) = 2
    /\ \A i \in DOMAIN items : items[i].price # products[items[i].productId]
    /\ getSubtotal(items) > items[1].price + items[2].price

\* C16: for every reachable cart and tax rate r, getTax(r) is subtotal * r
\* rounded to whole cents, getTotal(r) is subtotal + getTax(r) rounded to
\* whole cents, and getTotal(r) - getTax(r) is the subtotal.
C16_TaxAndTotal ==
    \A r \in TaxRates :
        LET s == getSubtotal(items)
            t == getTax(items, r)
        IN  /\ t % 10 = 0
            /\ t * 100 - 500 <= s * r
            /\ s * r < t * 100 + 500
            /\ getTotal(items, r) = calculateTotal(s, t)
            /\ getTotal(items, r) - t = s

\* C17: a transaction committed at tax rate 0.08 for a cart of one line with
\* price 3.50 and quantity 2 has subtotal 7.00, tax 0.56 and total 7.56.
C17_WorkedExample ==
    \A t \in Range(transactions) :
        t.items = <<[productId |-> "1", price |-> 3500, quantity |-> 2]>>
        => t.subtotal = 7000 /\ t.tax = 560 /\ t.total = 7560

C17_Witness ==
    /\ taxRate = 8
    /\ \E t \in Range(transactions) :
          /\ Len(t.items) = 1
          /\ t.items[1].price = 3500
          /\ t.items[1].quantity = 2

\* C18: in the payment view, a cash payment is authorized exactly when the
\* tender text parses to a number >= total, so not with an empty text nor
\* with a text that has no numeric prefix; a card or digital-wallet payment
\* is authorized whatever the tender text is.
C18_Authorization ==
    PaymentView =>
        LET can == canProcessPayment(paymentMethod, amountPaid, total)
            tendered == parseFloat(amountPaid)
        IN  IF paymentMethod = "cash"
            THEN /\ can <=> (~tendered.nan /\ tendered.v >= total)
                 /\ amountPaid = << >> => ~can
                 /\ amountPaid \in {<<"a">>, <<".">>, <<".", ".">>} => ~can
                 /\ amountPaid = <<"5">> /\ total = 7560 => ~can
                 /\ amountPaid = <<"1", "0">> /\ total = 7560 => can
            ELSE can

C18_Witness ==
    /\ PaymentView
    /\ paymentMethod = "cash"
    /\ total = 7560
    /\ parseFloat(amountPaid) = Num(total)

\* C19: in the cash payment view the raw change is tender - total, the
\* amount shown as change is max(0, change) and a negative change is shown
\* as the amount still needed; with total 7.56 a tender of 10 gives change
\* 2.44 and is authorized, a tender of 5 is not authorized and 2.56 more is
\* needed.
C19_ChangeAndShortfall ==
    (PaymentView /\ paymentMethod = "cash" /\ ~parseFloat(amountPaid).nan) =>
        LET tendered == parseFloat(amountPaid).v
            raw == change(amountPaid, total)
            shown == displayedChange(amountPaid, total)
            needed == insufficientAmount(amountPaid, total)
            can == canProcessPayment(paymentMethod, amountPaid, total)
        IN  /\ raw = Num(tendered - total)
            /\ shown = Num(IF tendered >= total THEN tendered - total ELSE 0)
            /\ (total = 7560 /\ tendered = 10000)
                  => raw = Num(2440) /\ can /\ shown = Num(2440) /\ needed = << >>
            /\ (total = 7560 /\ tendered = 5000)
                  => raw = Num(0 - 2560) /\ ~can /\ shown = Num(0)
                     /\ needed = <<Num(2560)>>

C19_Witness ==
    /\ PaymentView
    /\ paymentMethod = "cash"
    /\ total = 7560
    /\ amountPaid = <<"5">>

\* number of decimal points in the text s
RECURSIVE PointCount(_)
PointCount(s) ==
    IF s = << >> THEN 0
    ELSE (IF Head(s) = "." THEN 1 ELSE 0) + PointCount(Tail(s))

\* C20: the tender text never holds more than one decimal point, and a
\* decimal point keyed in when the text already holds one leaves the text
\* as it was.
C20_SingleDecimalPoint ==
    /\ [](PointCount(amountPaid) <= 1)
    /\ [][(Keypad({"."}, MaxTenderLen) /\ Includes(amountPaid, "."))
          => amountPaid' = amountPaid]_vars

\* the text s ends with a decimal point followed by two digits
EndsWithTwoFractionDigits(s) ==
    /\ Len(s) >= 3
    /\ s[Len(s) - 2] = "."
    /\ s[Len(s) - 1] \in Digit
    /\ s[Len(s)] \in Digit

\* C21: a digit keyed in when the tender text already ends with two digits
\* after a decimal point leaves the text exactly as it was; clear empties
\* the text and backspace removes exactly its last character.
C21_FractionCap ==
    /\ [][(Keypad(Digit, MaxTenderLen) /\ EndsWithTwoFractionDigits(amountPaid))
          => amountPaid' = amountPaid]_vars
    /\ [][Keypad({"clear"}, MaxTenderLen) => amountPaid' = << >>]_vars
    /\ [](handleKeypadInput(amountPaid, "backspace")
            = [i \in 1..(Len(amountPaid) - 1) |-> amountPaid[i]])

\* C22: a reload with a user in 'auth-storage' restores that user with
\* createdAt as a Date of the stored instant, so a state saved by the store
\* comes back as it was; with no user stored nothing is converted.
C22_AuthRehydration ==
    [][Reload
       => /\ (authStorage.user # NoUser /\ authStorage.createdAt.type = "string")
               => /\ user' = authStorage.user
                  /\ createdAt' = DateOf(authStorage.createdAt.ms)
          /\ (authStorage = authSerialize(user, createdAt)
                /\ createdAt.type \in {"Date", "null"})
               => user' = user /\ createdAt' = createdAt
          /\ authStorage.user = NoUser
               => user' = NoUser /\ createdAt' = authStorage.createdAt]_vars

C22_Witness ==
    /\ user # NoUser
    /\ createdAt.type = "Date"
    /\ authStorage.createdAt = [type |-> "string", ms |-> createdAt.ms]
    /\ loadedAt # createdAt.ms

\* C23: a reload that finds an unparsable createdAt or timestamp in storage
\* falls back to the default state of that store, and no store ever holds
\* an invalid instant.
C23_UnparsableFallsBack ==
    /\ [][(Reload /\ authStorage.createdAt = Unparsable)
          => user' = NoUser /\ createdAt' = NoDate]_vars
    /\ [][(Reload /\ \E i \in DOMAIN storage : storage[i].timestamp = Unparsable)
          => transactions' = << >>]_vars
    /\ [](createdAt.type \in {"Date", "null"})
    /\ [](\A t \in Range(transactions) : t.timestamp.type # "garbage")

\* C24: the stored tax rate is always within 0..1, and a save of a form whose
\* tax rate is outside 0..1 leaves the stored settings as they were.
C24_TaxRateInRange ==
    /\ [](0 <= taxRate /\ taxRate <= 100)
    /\ [][(handleSave /\ (formData.taxRate < 0 \/ formData.taxRate > 100))
          => taxRate' = taxRate /\ savePending' = << >>]_vars

C24_Witness ==
    /\ taxRate = 100
    /\ formData.taxRate = 150
    /\ savePending = << >>

\* C25: whatever the search term and the category, getFilteredProducts
\* returns no product whose isActive is false, and no cart operation changes
\* the product store.
C25_ActiveOnlyReadOnly ==
    /\ [](\A term \in SearchTerms, category \in SearchCategories :
            \A p \in Range(getFilteredProducts(isActive, term, category)) :
                isActive[p])
    /\ [][(items' # items) => UNCHANGED productVars]_vars
    /\ [][(\/ AddItem(GridProducts, 1)
            \/ RemoveItem(GridProducts)
            \/ UpdateQuantity(GridProducts, 1)
            \/ ClearCart) => UNCHANGED productVars]_vars

C25_Witness ==
    /\ ~isActive["4"]
    /\ searchTerm = <<"E", "E">>
    /\ getFilteredProducts(isActive, searchTerm, selectedCategory) = <<"1">>
    /\ items # << >>

\* C26: a payment attempt that is processing eventually stops processing;
\* the success step ends processing and appends exactly one transaction for
\* the attempt it ends, the failure step ends processing and appends none.
C26_ProcessingEnds ==
    /\ isProcessing ~> ~isProcessing
    /\ [][PaymentModal_handlePaymentCommit(PayRands)
          => /\ ~isProcessing'
             /\ Len(transactions') = Len(transactions) + 1
             /\ Len(pending') = Len(pending) - 1]_vars
    /\ [][PaymentModal_handlePaymentCatch
          => /\ ~isProcessing'
             /\ transactions' = transactions
             /\ Len(pending') = Len(pending) - 1]_vars

C26_Witness ==
    /\ attempt = "Committed"
    /\ ~isProcessing
    /\ pending = << >>
    /\ Len(transactions) = 1
    /\ showReceipt

\* C27: at most one payment attempt is in flight: an attempt is pending
\* exactly while isProcessing holds, a new attempt starts only when none is
\* processing, and a transaction is appended only by the single attempt in
\* flight, which leaves none behind.
C27_SingleAttempt ==
    /\ [](Len(pending) <= 1)
    /\ [](isProcessing <=> pending # << >>)
    /\ [][Len(pending') > Len(pending) => ~isProcessing /\ pending = << >>]_vars
    /\ [][Len(transactions') > Len(transactions)
          => /\ Len(pending) = 1
             /\ pending' = << >>
             /\ Len(transactions') = Len(transactions) + 1]_vars

\* a second attempt of the same session is processing after the first one
\* has been logged
C27_Witness ==
    /\ isProcessing
    /\ Len(pending) = 1
    /\ Len(transactions) = 1
    /\ attempt = "Processing"

\* C28: a close request while a payment is processing changes nothing (the
\* modal stays open through the whole attempt, which still ends as committed
\* or failed); a close request when none is processing empties amountPaid,
\* clears showReceipt and receiptData and closes the modal.
C28_CloseRequest ==
    /\ [][handleClose /\ isProcessing
          => UNCHANGED <<isPaymentModalOpen, amountPaid, showReceipt, receiptData,
                         isProcessing, pending, transactions>>]_vars
    /\ [][isProcessing => isPaymentModalOpen /\ isPaymentModalOpen']_vars
    /\ isProcessing ~> (attempt \in {"Committed", "Failed"})
    /\ [][handleClose /\ ~isProcessing
          => /\ amountPaid' = << >>
             /\ ~showReceipt'
             /\ receiptData' = << >>
             /\ ~isPaymentModalOpen']_vars

\* the receipt of a cash payment has been closed with the close control
C28_Witness ==
    /\ attempt = "Dismissed"
    /\ ~isPaymentModalOpen
    /\ amountPaid = << >>
    /\ ~showReceipt
    /\ receiptData = << >>
    /\ \E i \in DOMAIN transactions : transactions[i].paymentMethod = "cash"

\* C29: when a payment commits and its receipt comes up, the receipt number
\* put on the receipt view is the receiptNumber of the transaction that the
\* same step has stored as the newest entry of the log.
C29_ReceiptNumberShown ==
    [][(/\ Len(transactions') = Len(transactions) + 1
        /\ ~showReceipt
        /\ showReceipt')
       => receiptData'[1].receiptNumber = Head(transactions').receiptNumber]_vars

\* C30: every logged transaction reconciles with itself: its subtotal is
\* the sum of price times quantity over its own items and its cashier name
\* belongs to its cashier id; the transaction a commit appends has the tax
\* calculateTax gives for its subtotal at the tax rate of the moment the
\* payment was started, and the cashier logged in at that moment.
C30_Reconciles ==
    /\ [](\A i \in DOMAIN transactions :
            LET t == transactions[i]
            IN  /\ t.subtotal = LineTotals(t.items)
                /\ t.cashierId \in UserIds
                /\ t.cashierName = mockUsers[t.cashierId])
    /\ [][Len(pending') = Len(pending) + 1
          => LET c == pending'[Len(pending')]
             IN  /\ c.taxRate = taxRate
                 /\ c.user = user
                 /\ c.user # NoUser]_vars
    /\ [][\A i \in DOMAIN pending :
             (/\ pending' = Without(pending, i)
              /\ Len(transactions') = Len(transactions) + 1)
             => LET t == Head(transactions')
                    c == pending[i]
                IN  /\ t.tax = calculateTax(t.subtotal, c.taxRate)
                    /\ t.total = t.subtotal + t.tax
                    /\ t.cashierId = c.user
                    /\ t.cashierName = mockUsers[c.user]]_vars

\* a logged sale whose tax is not what the present rate gives, whose line
\* price is not the present catalog price and whose cashier is not logged
\* in any more
C30_Witness ==
    /\ transactions # << >>
    /\ Head(transactions).items # << >>
    /\ Head(transactions).tax # calculateTax(Head(transactions).subtotal, taxRate)
    /\ Head(transactions).items[1].price # products[Head(transactions).items[1].productId]
    /\ Head(transactions).cashierId # user

====
